---- MODULE Spec2Model ----
(***************************************************************************)
(* A model of security/tomoyo/condition.c: the condition part of TOMOYO    *)
(* access control rules.                                                   *)
(*                                                                         *)
(*   Spec      tomoyo_commit_condition run by several contexts against the *)
(*             shared tomoyo_condition_list under tomoyo_policy_lock.      *)
(*   SpecEval  tomoyo_condition / tomoyo_get_attributes evaluating         *)
(*             committed conditions against a request.                     *)
(*   SpecParse tomoyo_get_condition compiling an expression in two passes  *)
(*             over the caller's buffer.                                   *)
(***************************************************************************)
EXTENDS Integers, Sequences, FiniteSets, TLC

(***************************************************************************)
(* Bounds of the model.                                                    *)
(***************************************************************************)
\* Number of contexts that call tomoyo_commit_condition concurrently.
NProc == 2
\* Total number of commit calls (each call brings one freshly allocated entry).
MaxCalls == 3

Procs == 1..NProc

(***************************************************************************)
(* struct tomoyo_condition and its trailing region.                        *)
(* Sizes are those of the 32-bit ARM build of this tree.                   *)
(***************************************************************************)
SizeofCondition == 20
SizeofElement == 3
SizeofNumberUnion == 16

\* A closed interval operand (group = 0) or a reference to number group g.
Interval(lo, hi) == [values |-> <<lo, hi>>, group |-> 0]
GroupRef(g) == [values |-> <<0, 0>>, group |-> g]

Element(l, r, eq) == [left |-> l, right |-> r, equals |-> eq]

\* e.size as computed before kzalloc.
CondSize(condc, numbers_count) ==
    SizeofCondition + condc * SizeofElement + numbers_count * SizeofNumberUnion

\* The object tomoyo_get_condition hands to tomoyo_commit_condition.
MkCondition(elems, nums) ==
    [size |-> CondSize(Len(elems), Len(nums)),
     condc |-> Len(elems),
     numbers_count |-> Len(nums),
     condp |-> elems,
     numbers |-> nums]

\* The bytes after the header: the element array followed by the operand array.
Region(c) == c.condp \o c.numbers

\* Mutation of tomoyo_same_condition: compares the headers only.
SameConditionHeaderOnly(a, b) ==
    /\ a.size = b.size
    /\ a.condc = b.condc
    /\ a.numbers_count = b.numbers_count

\* Mutation of tomoyo_same_condition: compares addresses, never contents.
SameConditionNever(a, b) == FALSE

tomoyo_same_condition(a, b) ==
    /\ a.size = b.size
    /\ a.condc = b.condc
    /\ a.numbers_count = b.numbers_count
    /\ Region(a) = Region(b)

(***************************************************************************)
(* State.                                                                  *)
(***************************************************************************)
VARIABLES
    \* tomoyo_commit_condition, per calling context
    pc,                     \* position in tomoyo_commit_condition
    entry,                  \* @entry: address of the candidate
    found,                  \* local "found"
    ptr,                    \* local "ptr"
    ret,                    \* the returned pointer
    lock_rc,                \* what mutex_lock_interruptible returned
    mem_ok,                 \* what tomoyo_memory_ok returned
    \* shared
    tomoyo_policy_lock,     \* owner of the mutex, or Unlocked
    tomoyo_condition_list,  \* addresses on the list, head first
    heap,                   \* allocated struct tomoyo_condition, by address
    \* tomoyo_condition, for the request being checked
    req,                    \* struct tomoyo_request_info: credentials, paths
    obj,                    \* struct tomoyo_obj_info: validate_done, stat[]
    ev_pc,                  \* "ready", or "returned" from tomoyo_condition
    ev_cond,                \* @cond of the last call
    ev_ret,                 \* what the last call returned
    ev_i,                   \* local "i" when it returned
    ev_np,                  \* operands consumed through "numbers_p"
    ev_reads,               \* which operand each literal side was read from
    \* tomoyo_get_condition, for one caller
    p_pc,                   \* "idle", "loop" (at rerun / while), or how it ended
    p_text,                 \* the expression as the caller passed it
    p_buf,                  \* param->data: the caller's buffer, NUL included
    p_pos,                  \* local "pos": an index into the buffer
    p_e,                    \* local "e": condc, numbers_count, size
    p_entry,                \* local "entry": the block from kzalloc, if any
    p_condp,                \* elements written through "condp"
    p_numbers_p,            \* operands written through "numbers_p"
    p_freed,                \* kfree calls on the block
    p_parsed,               \* calls of tomoyo_parse_number_union
    \* tomoyo_get_condition and tomoyo_condition on a long expression
    l_expr,                 \* the expression, as runs of one repeated clause
    l_pc,                   \* "sizing", "build", or how the call ended
    l_run,                  \* the run "pos" is at
    l_e,                    \* local "e": condc, numbers_count, size
    l_entry,                \* the block from kzalloc and its header
    l_condp,                \* elements written through "condp"
    l_numbers_p,            \* operands written through "numbers_p"
    l_outside,              \* a write of the build pass fell outside the block
    l_fetched               \* operands tomoyo_condition fetched

commitVars ==
    <<pc, entry, found, ptr, ret, lock_rc, mem_ok,
      tomoyo_policy_lock, tomoyo_condition_list, heap>>

evalVars == <<req, obj, ev_pc, ev_cond, ev_ret, ev_i, ev_np, ev_reads>>

parseVars ==
    <<p_pc, p_text, p_buf, p_pos, p_e, p_entry, p_condp, p_numbers_p, p_freed,
      p_parsed>>

longVars ==
    <<l_expr, l_pc, l_run, l_e, l_entry, l_condp, l_numbers_p, l_outside,
      l_fetched>>

vars == <<commitVars, evalVars, parseVars, longVars>>

NULL == 0
\* Where "ptr" points when list_for_each_entry_rcu ran off the end of the list.
ListHead == -1
Unlocked == 0

(***************************************************************************)
(* Candidates offered to the interning store: the objects that             *)
(* tomoyo_get_condition builds for "task.uid=0" and "task.uid!=0": equal   *)
(* headers, different regions.                                             *)
(***************************************************************************)
CondUidIs0 ==
    MkCondition(<<Element("TOMOYO_TASK_UID", "TOMOYO_NUMBER_UNION", TRUE)>>,
                <<Interval(0, 0)>>)
CondUidNot0 ==
    MkCondition(<<Element("TOMOYO_TASK_UID", "TOMOYO_NUMBER_UNION", FALSE)>>,
                <<Interval(0, 0)>>)

Candidates == {CondUidIs0, CondUidNot0}

\* Addresses currently linked into tomoyo_condition_list.
Stored == {tomoyo_condition_list[i] : i \in 1..Len(tomoyo_condition_list)}

InitCommit ==
    /\ pc = [p \in Procs |-> "idle"]
    /\ entry = [p \in Procs |-> NULL]
    /\ found = [p \in Procs |-> FALSE]
    /\ ptr = [p \in Procs |-> NULL]
    /\ ret = [p \in Procs |-> NULL]
    /\ lock_rc = [p \in Procs |-> "none"]
    /\ mem_ok = [p \in Procs |-> "none"]
    /\ tomoyo_policy_lock = Unlocked
    /\ tomoyo_condition_list = <<>>
    /\ heap = <<>>

(***************************************************************************)
(* tomoyo_get_condition has built an entry (kzalloc: users = 0) and calls  *)
(* tomoyo_commit_condition(entry).                                         *)
(***************************************************************************)
CommitCall(p) ==
    /\ pc[p] \in {"idle", "done"}
    /\ UNCHANGED <<evalVars, parseVars, longVars>>
    /\ Len(heap) < MaxCalls
    /\ \E c \in Candidates :
        heap' = Append(heap, [cond |-> c, users |-> 0, freed |-> 0])
    /\ entry' = [entry EXCEPT ![p] = Len(heap) + 1]
    /\ found' = [found EXCEPT ![p] = FALSE]
    /\ ptr' = [ptr EXCEPT ![p] = NULL]
    /\ ret' = [ret EXCEPT ![p] = NULL]
    /\ lock_rc' = [lock_rc EXCEPT ![p] = "none"]
    /\ mem_ok' = [mem_ok EXCEPT ![p] = "none"]
    /\ pc' = [pc EXCEPT ![p] = "lock"]
    /\ UNCHANGED <<tomoyo_policy_lock, tomoyo_condition_list>>

\* Mutation of MutexFree: the lock excludes nobody.
MutexFreeAlways == TRUE

\* mutex_lock_interruptible can take the mutex.
MutexFree == tomoyo_policy_lock = Unlocked

\* mutex_lock_interruptible returned 0.
LockAcquire(p) ==
    /\ pc[p] = "lock"
    /\ UNCHANGED <<evalVars, parseVars, longVars>>
    /\ MutexFree
    /\ tomoyo_policy_lock' = p
    /\ lock_rc' = [lock_rc EXCEPT ![p] = "ok"]
    /\ pc' = [pc EXCEPT ![p] = "scan"]
    /\ UNCHANGED <<entry, found, ptr, ret, mem_ok, tomoyo_condition_list, heap>>

\* Mutation of InterruptedTarget: the interrupted path falls into the unlock.
InterruptedTargetUnlock == "unlock"

\* Where the interrupted path jumps: "goto out", past mutex_unlock.
InterruptedTarget == "out"

\* mutex_lock_interruptible returned -EINTR: a signal arrived while the
\* context was waiting for the holder.
LockInterrupted(p) ==
    /\ pc[p] = "lock"
    /\ UNCHANGED <<evalVars, parseVars, longVars>>
    /\ tomoyo_policy_lock # Unlocked
    /\ lock_rc' = [lock_rc EXCEPT ![p] = "eintr"]
    /\ ptr' = [ptr EXCEPT ![p] = NULL]
    /\ found' = [found EXCEPT ![p] = TRUE]
    /\ pc' = [pc EXCEPT ![p] = InterruptedTarget]
    /\ UNCHANGED <<entry, ret, mem_ok, tomoyo_policy_lock,
                   tomoyo_condition_list, heap>>

\* Index in the list of the first entry equal to the candidate, 0 if none.
FirstSame(e) ==
    LET hits == {i \in 1..Len(tomoyo_condition_list) :
                    tomoyo_same_condition(heap[tomoyo_condition_list[i]].cond,
                                          heap[e].cond)}
    IN  IF hits = {} THEN 0 ELSE CHOOSE i \in hits : \A j \in hits : i <= j

\* Mutation of SharedUsers: the reference is not taken.
SharedUsersForgotten(n) == n

\* atomic_inc(&ptr->head.users)
SharedUsers(n) == n + 1

\* list_for_each_entry_rcu ... tomoyo_same_condition ... atomic_inc ... break
Scan(p) ==
    /\ pc[p] = "scan"
    /\ UNCHANGED <<evalVars, parseVars, longVars>>
    /\ LET i == FirstSame(entry[p]) IN
        IF i # 0
        THEN LET m == tomoyo_condition_list[i] IN
             /\ heap' = [heap EXCEPT ![m].users = SharedUsers(@)]
             /\ found' = [found EXCEPT ![p] = TRUE]
             /\ ptr' = [ptr EXCEPT ![p] = m]
             /\ pc' = [pc EXCEPT ![p] = "unlock"]
        ELSE /\ ptr' = [ptr EXCEPT ![p] = ListHead]
             /\ pc' = [pc EXCEPT ![p] = "memok"]
             /\ UNCHANGED <<heap, found>>
    /\ UNCHANGED <<entry, ret, lock_rc, mem_ok, tomoyo_policy_lock,
                   tomoyo_condition_list>>

\* Mutation of RefusedList: the refused candidate is linked all the same.
RefusedListLinks(p) == <<entry[p]>> \o tomoyo_condition_list

\* The list after tomoyo_memory_ok refused the candidate.
RefusedList(p) == tomoyo_condition_list

\* if (!found) { if (tomoyo_memory_ok(entry)) ... else ... }
\* The quota is the collaborator's: either answer is possible.
MemoryOk(p) ==
    /\ pc[p] = "memok"
    /\ UNCHANGED <<evalVars, parseVars, longVars>>
    /\ \E ok \in BOOLEAN :
        /\ mem_ok' = [mem_ok EXCEPT ![p] = IF ok THEN "yes" ELSE "no"]
        /\ IF ok
           THEN /\ heap' = [heap EXCEPT ![entry[p]].users = 1]
                /\ tomoyo_condition_list' =
                       <<entry[p]>> \o tomoyo_condition_list
                /\ UNCHANGED <<found, ptr>>
           ELSE /\ found' = [found EXCEPT ![p] = TRUE]
                /\ ptr' = [ptr EXCEPT ![p] = NULL]
                /\ tomoyo_condition_list' = RefusedList(p)
                /\ UNCHANGED heap
    /\ pc' = [pc EXCEPT ![p] = "unlock"]
    /\ UNCHANGED <<entry, ret, lock_rc, tomoyo_policy_lock>>

\* mutex_unlock(&tomoyo_policy_lock): releases whoever holds it.
Unlock(p) ==
    /\ pc[p] = "unlock"
    /\ UNCHANGED <<evalVars, parseVars, longVars>>
    /\ tomoyo_policy_lock' = Unlocked
    /\ pc' = [pc EXCEPT ![p] = "out"]
    /\ UNCHANGED <<entry, found, ptr, ret, lock_rc, mem_ok,
                   tomoyo_condition_list, heap>>

\* Mutation of Released: the discarded candidate is never freed.
ReleasedLeak(p) == heap

\* tomoyo_del_condition(&entry->head.list); kfree(entry);
Released(p) == [heap EXCEPT ![entry[p]].freed = @ + 1]

\* out: if (found) { ...; entry = ptr; } return entry;
Out(p) ==
    /\ pc[p] = "out"
    /\ UNCHANGED <<evalVars, parseVars, longVars>>
    /\ IF found[p]
       THEN /\ heap' = Released(p)
            /\ ret' = [ret EXCEPT ![p] = ptr[p]]
       ELSE /\ ret' = [ret EXCEPT ![p] = entry[p]]
            /\ UNCHANGED heap
    /\ pc' = [pc EXCEPT ![p] = "done"]
    /\ UNCHANGED <<entry, found, ptr, lock_rc, mem_ok, tomoyo_policy_lock,
                   tomoyo_condition_list>>

NextCommit ==
    \E p \in Procs :
        \/ CommitCall(p)
        \/ LockAcquire(p)
        \/ LockInterrupted(p)
        \/ Scan(p)
        \/ MemoryOk(p)
        \/ Unlock(p)
        \/ Out(p)


(***************************************************************************)
(* Claims about the interning store (specification Spec).                  *)
(***************************************************************************)
\* Structural equality as the data model words it: the three counts agree and
\* the clause array and the operand array agree cell by cell.
StructurallyEqual(a, b) ==
    /\ a.size = b.size
    /\ a.condc = b.condc
    /\ a.numbers_count = b.numbers_count
    /\ a.condp = b.condp
    /\ a.numbers = b.numbers

\* Every context has made exactly one call, all with the same expression, and
\* all calls have returned.
EachCommittedSameOnce ==
    /\ Len(heap) = NProc
    /\ \A p \in Procs : pc[p] = "done"
    /\ \A i, j \in 1..Len(heap) : StructurallyEqual(heap[i].cond, heap[j].cond)

\* No lock wait was interrupted and the quota admitted the object.
Undisturbed == \A p \in Procs : lock_rc[p] = "ok" /\ mem_ok[p] # "no"

\* C1: when N contexts commit the same expression concurrently, no lock wait
\* is interrupted and the quota admits the object, the store holds exactly one
\* object, every commit returned it, and its reference count is N.
C1_OneObjectCountN ==
    (EachCommittedSameOnce /\ Undisturbed) =>
        /\ Len(tomoyo_condition_list) = 1
        /\ \A p \in Procs : ret[p] = tomoyo_condition_list[1]
        /\ heap[tomoyo_condition_list[1]].users = NProc

C1_Witness ==
    /\ EachCommittedSameOnce
    /\ Undisturbed
    /\ \E p \in Procs : ret[p] # entry[p]

\* C2: whatever commits ran and however they interleaved, no two objects on
\* the list are structurally equal (and no object is linked twice).
C2_NoEqualPair ==
    \A i, j \in 1..Len(tomoyo_condition_list) :
        i # j =>
            /\ tomoyo_condition_list[i] # tomoyo_condition_list[j]
            /\ ~StructurallyEqual(heap[tomoyo_condition_list[i]].cond,
                                  heap[tomoyo_condition_list[j]].cond)

C2_Witness ==
    /\ Len(tomoyo_condition_list) >= 2
    /\ \E p \in Procs :
        /\ pc[p] = "done"
        /\ ret[p] \in Stored
        /\ ret[p] # entry[p]
        /\ heap[entry[p]].freed = 1

\* The call of p is one that fails: the lock wait was interrupted or the quota
\* refused the candidate.
Failing(p) == lock_rc[p] = "eintr" \/ mem_ok[p] = "no"

\* The list and every object on it are as they were.
StoreUntouched ==
    /\ tomoyo_condition_list' = tomoyo_condition_list
    /\ \A o \in Stored : heap'[o] = heap[o]

\* C3: a commit that fails (quota refusal of a candidate with no equal in the
\* store, or an interrupted lock wait) returns no object, has released the
\* candidate exactly once, leaves the list and every stored reference count as
\* they were, and does not hold the lock on return; the lock is released only
\* by the context that acquired it.
C3_FailedCommit ==
    /\ [](\A p \in Procs :
            (pc[p] = "done" /\ Failing(p)) =>
                /\ ret[p] = NULL
                /\ heap[entry[p]].freed = 1
                /\ entry[p] \notin Stored
                /\ tomoyo_policy_lock # p)
    /\ [][\A p \in Procs :
            (pc'[p] # pc[p]) =>
                /\ (Failing(p)' \/ pc'[p] \in {"lock", "scan", "memok"})
                       => StoreUntouched
                /\ (pc[p] = "unlock") => tomoyo_policy_lock = p]_vars

C3_Witness ==
    \E p, q \in Procs :
        /\ pc[p] = "done" /\ lock_rc[p] = "eintr" /\ heap[entry[p]].freed = 1
        /\ pc[q] = "done" /\ mem_ok[q] = "no" /\ heap[entry[q]].freed = 1

\* The call of p found an equal object on the list.
Matched(p) == found[p] /\ ptr[p] # NULL

\* C4: a commit whose candidate equals a stored object changes nothing in the
\* store except the matched object's reference count, which grows by exactly
\* 1; nothing is linked or unlinked; and no step of any commit alters the
\* contents of a stored object.
C4_MatchOnlyCounts ==
    [][/\ \A p \in Procs :
            (pc'[p] # pc[p] /\ Matched(p)') =>
                /\ tomoyo_condition_list' = tomoyo_condition_list
                /\ IF pc[p] = "scan"
                   THEN /\ ptr'[p] \in Stored
                        /\ StructurallyEqual(heap[ptr'[p]].cond,
                                             heap[entry[p]].cond)
                        /\ heap'[ptr'[p]] =
                               [heap[ptr'[p]] EXCEPT !.users = @ + 1]
                        /\ \A o \in Stored \ {ptr'[p]} : heap'[o] = heap[o]
                   ELSE \A o \in Stored : heap'[o] = heap[o]
       /\ \A o \in Stored :
            /\ o \in Stored'
            /\ heap'[o].cond = heap[o].cond
            /\ heap'[o].freed = heap[o].freed]_vars

C4_Witness ==
    \E p \in Procs :
        /\ pc[p] = "done"
        /\ Matched(p)
        /\ ret[p] = ptr[p]
        /\ heap[ptr[p]].users = 2
        /\ Len(tomoyo_condition_list) = 2

(***************************************************************************)
(* tomoyo_condition: constants of the switch.                              *)
(***************************************************************************)
S_IFMT == 61440
S_IFSOCK == 49152
S_IFLNK == 40960
S_IFREG == 32768
S_IFBLK == 24576
S_IFDIR == 16384
S_IFCHR == 8192
S_IFIFO == 4096
S_ISUID == 2048
S_ISGID == 1024
S_ISVTX == 512
S_IRUSR == 256
S_IWUSR == 128
S_IXUSR == 64
S_IRGRP == 32
S_IWGRP == 16
S_IXGRP == 8
S_IROTH == 4
S_IWOTH == 2
S_IXOTH == 1
S_IALLUGO == 4095
\* MAJOR(dev) is dev >> MINORBITS, MINOR(dev) is dev & MINORMASK.
MINORBITS == 20

\* enum tomoyo_path_stat_index
TOMOYO_PATH1 == 0
TOMOYO_PATH1_PARENT == 1
TOMOYO_PATH2 == 2
TOMOYO_PATH2_PARENT == 3
TOMOYO_MAX_PATH_STAT == 4

RECURSIVE BitAnd(_, _)
\* a & b on unsigned long
BitAnd(a, b) ==
    IF a = 0 \/ b = 0
    THEN 0
    ELSE (a % 2) * (b % 2) + 2 * BitAnd(a \div 2, b \div 2)

RECURSIVE Pow2(_)
Pow2(n) == IF n = 0 THEN 1 ELSE 2 * Pow2(n - 1)

MAJOR(dev) == dev \div Pow2(MINORBITS)
MINOR(dev) == dev % Pow2(MINORBITS)

\* The selectors whose case sets is_bitop[j].
BitopSelectors ==
    {"TOMOYO_MODE_SETUID", "TOMOYO_MODE_SETGID", "TOMOYO_MODE_STICKY",
     "TOMOYO_MODE_OWNER_READ", "TOMOYO_MODE_OWNER_WRITE",
     "TOMOYO_MODE_OWNER_EXECUTE", "TOMOYO_MODE_GROUP_READ",
     "TOMOYO_MODE_GROUP_WRITE", "TOMOYO_MODE_GROUP_EXECUTE",
     "TOMOYO_MODE_OTHERS_READ", "TOMOYO_MODE_OTHERS_WRITE",
     "TOMOYO_MODE_OTHERS_EXECUTE"}

\* The case labels of the bit operation's counterpart.
PermSelectors ==
    {"TOMOYO_PATH1_PERM", "TOMOYO_PATH1_PARENT_PERM",
     "TOMOYO_PATH2_PERM", "TOMOYO_PATH2_PARENT_PERM"}

\* The inner switch that picks stat_index; TOMOYO_MAX_PATH_STAT stands for
\* its "default: goto out".
StatIndex(index) ==
    CASE index \in {"TOMOYO_PATH1_UID", "TOMOYO_PATH1_GID", "TOMOYO_PATH1_INO",
                    "TOMOYO_PATH1_MAJOR", "TOMOYO_PATH1_MINOR",
                    "TOMOYO_PATH1_TYPE", "TOMOYO_PATH1_DEV_MAJOR",
                    "TOMOYO_PATH1_DEV_MINOR", "TOMOYO_PATH1_PERM"}
            -> TOMOYO_PATH1
      [] index \in {"TOMOYO_PATH2_UID", "TOMOYO_PATH2_GID", "TOMOYO_PATH2_INO",
                    "TOMOYO_PATH2_MAJOR", "TOMOYO_PATH2_MINOR",
                    "TOMOYO_PATH2_TYPE", "TOMOYO_PATH2_DEV_MAJOR",
                    "TOMOYO_PATH2_DEV_MINOR", "TOMOYO_PATH2_PERM"}
            -> TOMOYO_PATH2
      [] index \in {"TOMOYO_PATH1_PARENT_UID", "TOMOYO_PATH1_PARENT_GID",
                    "TOMOYO_PATH1_PARENT_INO", "TOMOYO_PATH1_PARENT_PERM"}
            -> TOMOYO_PATH1_PARENT
      [] index \in {"TOMOYO_PATH2_PARENT_UID", "TOMOYO_PATH2_PARENT_GID",
                    "TOMOYO_PATH2_PARENT_INO", "TOMOYO_PATH2_PARENT_PERM"}
            -> TOMOYO_PATH2_PARENT
      [] OTHER -> TOMOYO_MAX_PATH_STAT

\* The inner switch that picks the field of the slot.
StatValue(index, stat) ==
    CASE index \in {"TOMOYO_PATH1_UID", "TOMOYO_PATH2_UID",
                    "TOMOYO_PATH1_PARENT_UID", "TOMOYO_PATH2_PARENT_UID"}
            -> stat.uid
      [] index \in {"TOMOYO_PATH1_GID", "TOMOYO_PATH2_GID",
                    "TOMOYO_PATH1_PARENT_GID", "TOMOYO_PATH2_PARENT_GID"}
            -> stat.gid
      [] index \in {"TOMOYO_PATH1_INO", "TOMOYO_PATH2_INO",
                    "TOMOYO_PATH1_PARENT_INO", "TOMOYO_PATH2_PARENT_INO"}
            -> stat.ino
      [] index \in {"TOMOYO_PATH1_MAJOR", "TOMOYO_PATH2_MAJOR"}
            -> MAJOR(stat.dev)
      [] index \in {"TOMOYO_PATH1_MINOR", "TOMOYO_PATH2_MINOR"}
            -> MINOR(stat.dev)
      [] index \in {"TOMOYO_PATH1_TYPE", "TOMOYO_PATH2_TYPE"}
            -> BitAnd(stat.mode, S_IFMT)
      [] index \in {"TOMOYO_PATH1_DEV_MAJOR", "TOMOYO_PATH2_DEV_MAJOR"}
            -> MAJOR(stat.rdev)
      [] index \in {"TOMOYO_PATH1_DEV_MINOR", "TOMOYO_PATH2_DEV_MINOR"}
            -> MINOR(stat.rdev)
      [] index \in PermSelectors
            -> BitAnd(stat.mode, S_IALLUGO)
      [] OTHER -> 0

(***************************************************************************)
(* tomoyo_get_attributes                                                   *)
(***************************************************************************)
\* dget_parent(dentry)
dget_parent(d) ==
    [present |-> TRUE, positive |-> d.parent_positive, inode |-> d.parent_inode,
     parent_positive |-> d.parent_positive, parent_inode |-> d.parent_inode]

\* The six assignments from inode to stat.
MiniStat(inode) ==
    [uid |-> inode.i_uid, gid |-> inode.i_gid, ino |-> inode.i_ino,
     mode |-> inode.i_mode, dev |-> inode.s_dev, rdev |-> inode.i_rdev]

\* The switch (i) at the head of the loop body: the dentry the role starts
\* from; for a parent role that is the local "dentry" as the iteration
\* before left it.
BaseDentry(i, dentry, r) ==
    CASE i = TOMOYO_PATH1 -> r.path1
      [] i = TOMOYO_PATH2 -> r.path2
      [] OTHER -> dentry

\* Mutation of CarriedWhenAbsent: "dentry" keeps its old value when the path
\* of the role is absent.
CarriedWhenAbsentStale(base, dentry) == dentry

\* dentry = obj->path2.dentry; if (!dentry) continue; the local is assigned
\* before it is tested, so an absent path leaves it NULL.
CarriedWhenAbsent(base, dentry) == base

\* The dentry whose inode is read: the path's own, or dget_parent of it.
TakenDentry(i, base) ==
    IF i \in {TOMOYO_PATH1, TOMOYO_PATH2} THEN base ELSE dget_parent(base)

\* Mutation of DputDue: every role ends with dput(dentry).
DputDueAlways(i) == TRUE

\* if (i & 1) dput(dentry);
DputDue(i) == i % 2 = 1

\* The references taken and dropped by one iteration, in order.
RefsOf(i) ==
    (IF i \in {TOMOYO_PATH1, TOMOYO_PATH2} THEN <<>> ELSE <<<<"dget", i>>>>)
    \o (IF DputDue(i) THEN <<<<"dput", i>>>> ELSE <<>>)

\* if (inode) { stat->... = inode->...; obj->stat_valid[i] = true; }
FillSlot(i, d, o) ==
    IF d.positive
    THEN [o EXCEPT !.stat[i] = MiniStat(d.inode), !.stat_valid[i] = TRUE]
    ELSE o

\* One iteration for a role whose base dentry is there.
Logged(i, o) == [o EXCEPT !.refs = @ \o RefsOf(i)]

RECURSIVE GetAttributesFrom(_, _, _, _)
\* The loop body for slot i and the slots after it; "dentry" is the local
\* carried from one iteration into the next.
GetAttributesFrom(i, dentry, r, o) ==
    IF i >= TOMOYO_MAX_PATH_STAT
    THEN o
    ELSE IF ~BaseDentry(i, dentry, r).present
    THEN GetAttributesFrom(i + 1,
                           CarriedWhenAbsent(BaseDentry(i, dentry, r), dentry),
                           r, o)
    ELSE GetAttributesFrom(i + 1, TakenDentry(i, BaseDentry(i, dentry, r)), r,
                           Logged(i, FillSlot(i, TakenDentry(
                                          i, BaseDentry(i, dentry, r)), o)))

NoDentry ==
    [present |-> FALSE, positive |-> FALSE,
     inode |-> [i_uid |-> 0, i_gid |-> 0, i_ino |-> 0, i_mode |-> 0,
                s_dev |-> 0, i_rdev |-> 0],
     parent_positive |-> FALSE,
     parent_inode |-> [i_uid |-> 0, i_gid |-> 0, i_ino |-> 0, i_mode |-> 0,
                       s_dev |-> 0, i_rdev |-> 0]]

\* fetches counts the calls made for the request.
tomoyo_get_attributes(r, o) ==
    [GetAttributesFrom(0, NoDentry, r, o) EXCEPT !.fetches = @ + 1]

(***************************************************************************)
(* tomoyo_condition                                                        *)
(***************************************************************************)
\* The members of the number groups policy defines; group 0 is "no group".
NumberGroups == <<{<<10, 20>>, <<100, 100>>}>>

\* The group subsystem's test: some member of the group overlaps [min, max].
tomoyo_number_matches_group(min, max, group) ==
    \E m \in NumberGroups[group] : ~(min > m[2] \/ max < m[1])

\* A side resolved to a value; the loop goes on.
Scalar(v, o) == [out |-> FALSE, value |-> v, obj |-> o]
\* "goto out"
GotoOut(o) == [out |-> TRUE, value |-> 0, obj |-> o]

\* Mutation of SlotUsable: the validity flag is not consulted.
SlotUsableUnchecked(o, stat_index) == TRUE

\* obj->stat_valid[stat_index]
SlotUsable(o, stat_index) == o.stat_valid[stat_index]

\* The "default:" case once obj->validate_done is set: the inner switches
\* and the test of obj->stat_valid[stat_index].
PathField(index, stat_index, o) ==
    IF stat_index = TOMOYO_MAX_PATH_STAT
    THEN GotoOut(o)
    ELSE IF ~SlotUsable(o, stat_index)
    THEN GotoOut(o)
    ELSE Scalar(StatValue(index, o.stat[stat_index]), o)

\* Mutation of NeedsFetch: the attributes are fetched at every use.
NeedsFetchAlways(o) == TRUE

\* if (!obj->validate_done)
NeedsFetch(o) == ~o.validate_done

\* The "default:" case of the outer switch: a selector of a path attribute.
PathValue(index, r, o) ==
    IF ~r.has_obj
    THEN GotoOut(o)
    ELSE PathField(index, StatIndex(index),
                   IF NeedsFetch(o)
                   THEN [tomoyo_get_attributes(r, o)
                            EXCEPT !.validate_done = TRUE]
                   ELSE o)

\* The outer switch (index): the value of one side of the element.
SideValue(index, r, o) ==
    CASE index = "TOMOYO_TASK_UID" -> Scalar(r.cred.uid, o)
      [] index = "TOMOYO_TASK_EUID" -> Scalar(r.cred.euid, o)
      [] index = "TOMOYO_TASK_SUID" -> Scalar(r.cred.suid, o)
      [] index = "TOMOYO_TASK_FSUID" -> Scalar(r.cred.fsuid, o)
      [] index = "TOMOYO_TASK_GID" -> Scalar(r.cred.gid, o)
      [] index = "TOMOYO_TASK_EGID" -> Scalar(r.cred.egid, o)
      [] index = "TOMOYO_TASK_SGID" -> Scalar(r.cred.sgid, o)
      [] index = "TOMOYO_TASK_FSGID" -> Scalar(r.cred.fsgid, o)
      [] index = "TOMOYO_TASK_PID" -> Scalar(r.cred.pid, o)
      [] index = "TOMOYO_TASK_PPID" -> Scalar(r.cred.ppid, o)
      [] index = "TOMOYO_TYPE_IS_SOCKET" -> Scalar(S_IFSOCK, o)
      [] index = "TOMOYO_TYPE_IS_SYMLINK" -> Scalar(S_IFLNK, o)
      [] index = "TOMOYO_TYPE_IS_FILE" -> Scalar(S_IFREG, o)
      [] index = "TOMOYO_TYPE_IS_BLOCK_DEV" -> Scalar(S_IFBLK, o)
      [] index = "TOMOYO_TYPE_IS_DIRECTORY" -> Scalar(S_IFDIR, o)
      [] index = "TOMOYO_TYPE_IS_CHAR_DEV" -> Scalar(S_IFCHR, o)
      [] index = "TOMOYO_TYPE_IS_FIFO" -> Scalar(S_IFIFO, o)
      [] index = "TOMOYO_MODE_SETUID" -> Scalar(S_ISUID, o)
      [] index = "TOMOYO_MODE_SETGID" -> Scalar(S_ISGID, o)
      [] index = "TOMOYO_MODE_STICKY" -> Scalar(S_ISVTX, o)
      [] index = "TOMOYO_MODE_OWNER_READ" -> Scalar(S_IRUSR, o)
      [] index = "TOMOYO_MODE_OWNER_WRITE" -> Scalar(S_IWUSR, o)
      [] index = "TOMOYO_MODE_OWNER_EXECUTE" -> Scalar(S_IXUSR, o)
      [] index = "TOMOYO_MODE_GROUP_READ" -> Scalar(S_IRGRP, o)
      [] index = "TOMOYO_MODE_GROUP_WRITE" -> Scalar(S_IWGRP, o)
      [] index = "TOMOYO_MODE_GROUP_EXECUTE" -> Scalar(S_IXGRP, o)
      [] index = "TOMOYO_MODE_OTHERS_READ" -> Scalar(S_IROTH, o)
      [] index = "TOMOYO_MODE_OTHERS_WRITE" -> Scalar(S_IWOTH, o)
      [] index = "TOMOYO_MODE_OTHERS_EXECUTE" -> Scalar(S_IXOTH, o)
      [] index = "TOMOYO_NUMBER_UNION" -> Scalar(0, o)
      [] OTHER -> PathValue(index, r, o)

\* "continue" (cont) or "goto out" after one element, with numbers_p and obj.
Outcome(cont, np, o) == [cont |-> cont, np |-> np, obj |-> o, reads |-> {}]

\* The same outcome, with the operands the element fetched.
WithReads(out, rd) == [out EXCEPT !.reads = rd]

\* Mutation of LiteralOverlap: the literal is compared as a single point.
LiteralOverlapPoint(min0, max0, nptr) ==
    min0 = nptr.values[1] /\ max0 = nptr.values[1]

\* min_v[0] <= ptr->values[1] && max_v[0] >= ptr->values[0]
LiteralOverlap(min0, max0, nptr) ==
    min0 <= nptr.values[2] /\ max0 >= nptr.values[1]

\* Mutation of BitTest: the two sides are compared for equality.
BitTestEquality(a, b, match) == (a = b) = match

\* !(max_v[0] & max_v[1]) == !match
BitTest(a, b, match) == (BitAnd(a, b) = 0) = (~match)

\* The comparison at the end of the loop body, once both sides have their
\* ranges [min0, max0] and [min1, max1]; np1 is numbers_p after the left side.
Compare(left, right, match, numbers, np1, min0, max0, min1, max1, o) ==
    IF right = "TOMOYO_NUMBER_UNION"
    THEN IF numbers[np1 + 1].group # 0
         THEN Outcome(tomoyo_number_matches_group(
                          min0, max0, numbers[np1 + 1].group) = match,
                      np1 + 1, o)
         ELSE Outcome(LiteralOverlap(min0, max0, numbers[np1 + 1]) = match,
                      np1 + 1, o)
    ELSE IF left \in BitopSelectors /\ right \in BitopSelectors
    THEN Outcome(FALSE, np1, o)
    ELSE IF left \in BitopSelectors
    THEN Outcome(right \in PermSelectors /\ BitTest(max0, max1, match),
                 np1, o)
    ELSE IF right \in BitopSelectors
    THEN Outcome(left \in PermSelectors /\ BitTest(max0, max1, match),
                 np1, o)
    ELSE Outcome((min0 <= max1 /\ max0 >= min1) = match, np1, o)

\* Mutation of AfterLeftOperand: the left fetch does not advance numbers_p.
AfterLeftOperandStuck(left, np) == np

\* if (left == TOMOYO_NUMBER_UNION) { ptr = numbers_p++; ... }
AfterLeftOperand(left, np) ==
    IF left = "TOMOYO_NUMBER_UNION" THEN np + 1 ELSE np

\* The operands "ptr = numbers_p++" points at for the sides of one element
\* entered with numbers_p at np, as <<side, index from 1>>.
FetchedOperands(left, right, np) ==
    (IF left = "TOMOYO_NUMBER_UNION" THEN {<<"left", np + 1>>} ELSE {})
    \cup (IF right = "TOMOYO_NUMBER_UNION"
          THEN {<<"right", AfterLeftOperand(left, np) + 1>>}
          ELSE {})

\* The loop body after the switch of both sides: L and R are what the switch
\* gave for j = 0 and j = 1.
AfterSides(condp, numbers, np, L, R) ==
    IF R.out
    THEN Outcome(FALSE, np, R.obj)
    ELSE IF condp.left = "TOMOYO_NUMBER_UNION"
    THEN WithReads(
             Compare(condp.left, condp.right, condp.equals, numbers,
                     AfterLeftOperand(condp.left, np),
                     numbers[np + 1].values[1], numbers[np + 1].values[2],
                     R.value, R.value, R.obj),
             FetchedOperands(condp.left, condp.right, np))
    ELSE WithReads(
             Compare(condp.left, condp.right, condp.equals, numbers,
                     AfterLeftOperand(condp.left, np),
                     L.value, L.value, R.value, R.value, R.obj),
             FetchedOperands(condp.left, condp.right, np))

\* The loop body after the switch of the left side (j = 0).
AfterLeft(condp, numbers, np, r, L) ==
    IF L.out
    THEN Outcome(FALSE, np, L.obj)
    ELSE AfterSides(condp, numbers, np, L, SideValue(condp.right, r, L.obj))

\* One iteration of the loop over the elements.
EvalElement(condp, numbers, np, r, o) ==
    AfterLeft(condp, numbers, np, r, SideValue(condp.left, r, o))

\* Mutation of LoopBound: the last element is never looked at.
LoopBoundShort(cond) == cond.condc - 1

\* condc = cond->condc; for (i = 0; i < condc; i++)
LoopBound(cond) == cond.condc

\* The fetches of element i (from 0), as <<clause from 1, side, index>>.
ReadsOfClause(i, rd) == {<<i + 1, x[1], x[2]>> : x \in rd}

\* The result of the rest of the loop, with the fetches made before it.
AddReads(res, rd) == [res EXCEPT !.reads = @ \cup rd]

RECURSIVE EvalFrom(_, _, _, _, _)
\* The end of one iteration: "continue" into the next, or "out: return false".
AfterElement(cond, i, r, e) ==
    IF e.cont
    THEN AddReads(EvalFrom(cond, i + 1, e.np, r, e.obj),
                  ReadsOfClause(i, e.reads))
    ELSE [ret |-> FALSE, i |-> i, np |-> e.np, obj |-> e.obj,
          reads |-> ReadsOfClause(i, e.reads)]

\* The loop from element i on: "return true" after the last element,
\* "return false" at the first "goto out".
EvalFrom(cond, i, np, r, o) ==
    IF i >= LoopBound(cond)
    THEN [ret |-> TRUE, i |-> i, np |-> np, obj |-> o, reads |-> {}]
    ELSE AfterElement(cond, i, r,
                      EvalElement(cond.condp[i + 1], cond.numbers, np, r, o))

\* A pointer to a struct tomoyo_condition, maybe NULL.
NullCond == [null |-> TRUE, at |-> MkCondition(<<>>, <<>>)]
Ref(c) == [null |-> FALSE, at |-> c]

\* Mutation of NullCondResult: an absent condition matches nothing.
NullCondResultFalse(o) ==
    [ret |-> FALSE, i |-> 0, np |-> 0, obj |-> o, reads |-> {}]

\* if (!cond) return true;
NullCondResult(o) ==
    [ret |-> TRUE, i |-> 0, np |-> 0, obj |-> o, reads |-> {}]

tomoyo_condition(r, o, cond) ==
    IF cond.null
    THEN NullCondResult(o)
    ELSE EvalFrom(cond.at, 0, 0, r, o)

(***************************************************************************)
(* Requests and conditions the evaluator is run on.                        *)
(***************************************************************************)
\* Longest condition, in elements.
MaxClauses == 2

\* The credentials of current: a task whose ids are all u, resp. g.
Cred(u, g) ==
    [uid |-> u, euid |-> u, suid |-> u, fsuid |-> u,
     gid |-> g, egid |-> g, sgid |-> g, fsgid |-> g, pid |-> 2, ppid |-> 1]

Creds == {Cred(0, 0), Cred(15, 15), Cred(25, 0)}

\* rwxr-xr-x regular file of uid 15, rw-r--r-- regular file of root, and the
\* directory holding them.
InodeExec ==
    [i_uid |-> 15, i_gid |-> 15, i_ino |-> 2, i_mode |-> S_IFREG + 493,
     s_dev |-> 8 * Pow2(MINORBITS) + 1, i_rdev |-> 0]
InodePlain ==
    [i_uid |-> 0, i_gid |-> 0, i_ino |-> 3, i_mode |-> S_IFREG + 420,
     s_dev |-> 8 * Pow2(MINORBITS) + 1, i_rdev |-> 0]
InodeDir ==
    [i_uid |-> 0, i_gid |-> 0, i_ino |-> 1, i_mode |-> S_IFDIR + 493,
     s_dev |-> 8 * Pow2(MINORBITS) + 1, i_rdev |-> 0]

\* Another directory, rwxrwxr-x, of uid 25.
InodeOtherDir ==
    [i_uid |-> 25, i_gid |-> 0, i_ino |-> 4, i_mode |-> S_IFDIR + 509,
     s_dev |-> 8 * Pow2(MINORBITS) + 1, i_rdev |-> 0]

\* A dentry with an inode, and one without (the file does not exist yet).
Positive(inode, parent) ==
    [present |-> TRUE, positive |-> TRUE, inode |-> inode,
     parent_positive |-> TRUE, parent_inode |-> parent]
Negative(parent) ==
    [present |-> TRUE, positive |-> FALSE, inode |-> NoDentry.inode,
     parent_positive |-> TRUE, parent_inode |-> parent]

Path1Choices ==
    {NoDentry, Negative(InodeDir), Positive(InodeExec, InodeDir),
     Positive(InodePlain, InodeDir)}
Path2Choices ==
    {NoDentry, Negative(InodeOtherDir), Positive(InodePlain, InodeOtherDir)}

Requests ==
    {[cred |-> c, has_obj |-> FALSE, path1 |-> NoDentry, path2 |-> NoDentry] :
        c \in Creds}
    \cup
    {[cred |-> c, has_obj |-> TRUE, path1 |-> p1, path2 |-> p2] :
        c \in Creds, p1 \in Path1Choices, p2 \in Path2Choices}

\* struct tomoyo_obj_info as the caller zeroes it at the start of a request.
FreshObj ==
    [validate_done |-> FALSE, fetches |-> 0, refs |-> <<>>,
     stat_valid |-> [i \in 0..(TOMOYO_MAX_PATH_STAT - 1) |-> FALSE],
     stat |-> [i \in 0..(TOMOYO_MAX_PATH_STAT - 1) |->
                  [uid |-> 0, gid |-> 0, ino |-> 0, mode |-> 0,
                   dev |-> 0, rdev |-> 0]]]

\* One clause as tomoyo_get_condition emits it: the element and the operands
\* of its sides, left before right.
Clause(l, r, eq, nums) == [elem |-> Element(l, r, eq), nums |-> nums]

ClausePool ==
    {Clause("TOMOYO_TASK_UID", "TOMOYO_NUMBER_UNION", TRUE,
            <<Interval(10, 20)>>),
     Clause("TOMOYO_TASK_UID", "TOMOYO_NUMBER_UNION", FALSE,
            <<Interval(10, 20)>>),
     Clause("TOMOYO_TASK_UID", "TOMOYO_NUMBER_UNION", TRUE, <<GroupRef(1)>>),
     Clause("TOMOYO_NUMBER_UNION", "TOMOYO_NUMBER_UNION", TRUE,
            <<Interval(5, 5), Interval(0, 10)>>),
     Clause("TOMOYO_MODE_OWNER_EXECUTE", "TOMOYO_PATH1_PERM", TRUE, <<>>),
     Clause("TOMOYO_MODE_OWNER_EXECUTE", "TOMOYO_PATH1_PERM", FALSE, <<>>),
     Clause("TOMOYO_PATH2_PARENT_PERM", "TOMOYO_MODE_GROUP_WRITE", TRUE, <<>>),
     Clause("TOMOYO_MODE_SETUID", "TOMOYO_MODE_OWNER_READ", TRUE, <<>>),
     Clause("TOMOYO_MODE_SETUID", "TOMOYO_MODE_SETUID", FALSE, <<>>),
     Clause("TOMOYO_PATH1_UID", "TOMOYO_TASK_UID", TRUE, <<>>),
     Clause("TOMOYO_TASK_GID", "TOMOYO_PATH1_GID", FALSE, <<>>),
     Clause("TOMOYO_MODE_SETUID", "TOMOYO_NUMBER_UNION", TRUE,
            <<Interval(2048, 2048)>>),
     Clause("TOMOYO_MODE_OWNER_READ", "TOMOYO_TASK_UID", FALSE, <<>>),
     Clause("TOMOYO_PATH1_UID", "TOMOYO_NUMBER_UNION", TRUE,
            <<Interval(10, 20)>>)}

RECURSIVE ClauseSeqs(_)
\* The sequences of 1..n clauses of the pool.
ClauseSeqs(n) ==
    IF n = 0
    THEN {<<>>}
    ELSE LET shorter == ClauseSeqs(n - 1) IN
         shorter \cup {Append(cs, c) : cs \in shorter, c \in ClausePool}

RECURSIVE Operands(_)
\* The operand array of a sequence of clauses.
Operands(cs) ==
    IF cs = <<>> THEN <<>> ELSE cs[1].nums \o Operands(Tail(cs))

\* The condition object tomoyo_get_condition builds for a sequence of clauses.
Compiled(cs) ==
    MkCondition([k \in 1..Len(cs) |-> cs[k].elem], Operands(cs))

EvalConds == {Compiled(cs) : cs \in ClauseSeqs(MaxClauses) \ {<<>>}}

CondPointers == {NullCond} \cup {Ref(c) : c \in EvalConds}

(***************************************************************************)
(* The access check: the caller walks the rules of the domain and calls    *)
(* tomoyo_condition for each with the same request.                        *)
(***************************************************************************)
EvalIdle ==
    /\ ev_pc = "ready"
    /\ ev_cond = NullCond
    /\ ev_ret = FALSE
    /\ ev_i = 0
    /\ ev_np = 0
    /\ ev_reads = {}

InitEval ==
    /\ req \in Requests
    /\ obj = FreshObj
    /\ EvalIdle

\* A new access request arrives.
NewRequest ==
    /\ req' \in Requests
    /\ obj' = FreshObj
    /\ ev_pc' = "ready"
    /\ ev_cond' = NullCond
    /\ ev_ret' = FALSE
    /\ ev_i' = 0
    /\ ev_np' = 0
    /\ ev_reads' = {}
    /\ UNCHANGED <<commitVars, parseVars, longVars>>

\* The caller receives the return value; obj keeps what the call left in it.
Return(cond, res) ==
    /\ ev_cond' = cond
    /\ ev_ret' = res.ret
    /\ ev_i' = res.i
    /\ ev_np' = res.np
    /\ ev_reads' = res.reads
    /\ obj' = res.obj

\* tomoyo_condition(r, cond), from entry to return.
CallCondition ==
    /\ ev_pc = "ready"
    /\ \E cond \in CondPointers : Return(cond, tomoyo_condition(req, obj, cond))
    /\ ev_pc' = "returned"
    /\ UNCHANGED <<req, commitVars, parseVars, longVars>>

\* The caller takes the answer and goes on to the next rule.
NextRule ==
    /\ ev_pc = "returned"
    /\ ev_pc' = "ready"
    /\ ev_cond' = NullCond
    /\ ev_ret' = FALSE
    /\ ev_i' = 0
    /\ ev_np' = 0
    /\ ev_reads' = {}
    /\ UNCHANGED <<req, obj, commitVars, parseVars, longVars>>

NextEval ==
    \/ NewRequest
    \/ CallCondition
    \/ NextRule

(***************************************************************************)
(* Properties of tomoyo_condition.                                         *)
(***************************************************************************)
\* tomoyo_condition has returned from a call with a non-NULL cond.
Called == ev_pc = "returned" /\ ~ev_cond.null

IsPathSelector(sel) == StatIndex(sel) # TOMOYO_MAX_PATH_STAT

\* The number of operands the clauses before clause k (1-based) own.
OperandsBefore(c, k) ==
    Cardinality({j \in 1..(k - 1) : c.condp[j].left = "TOMOYO_NUMBER_UNION"})
    + Cardinality({j \in 1..(k - 1) :
                      c.condp[j].right = "TOMOYO_NUMBER_UNION"})

\* The clauses the call went through: all of them, or those up to the one
\* it returned false at (ev_i counts from 0).
Visited(c) == {k \in 1..c.condc : k <= ev_i + 1}

\* Clause k was gone through and the loop went on after it.
Passed(k) == k <= ev_i

\* Whether the inode of a path role is there to be read, from the request.
SlotResolves(r, s) ==
    CASE s = TOMOYO_PATH1 -> r.path1.present /\ r.path1.positive
      [] s = TOMOYO_PATH1_PARENT -> r.path1.present /\ r.path1.parent_positive
      [] s = TOMOYO_PATH2 -> r.path2.present /\ r.path2.positive
      [] s = TOMOYO_PATH2_PARENT -> r.path2.present /\ r.path2.parent_positive
      [] OTHER -> FALSE

\* The side names a path attribute the request cannot supply.
Unavailable(r, sel) ==
    /\ IsPathSelector(sel)
    /\ ~r.has_obj \/ ~SlotResolves(r, StatIndex(sel))

\* Clause k on its own: the operands it owns, the request as it is.
Succeeds(k) ==
    EvalElement(ev_cond.at.condp[k], ev_cond.at.numbers,
                OperandsBefore(ev_cond.at, k), req, obj).cont

\* C5: the result is true exactly when every clause succeeds; a false result
\* comes from the first failing clause, the clauses after it consume no
\* operand and the attributes are resolved only if a clause up to that one
\* names a path attribute.
C5_StopsAtFirstFailure ==
    /\ [](Called =>
            /\ ev_ret = (\A k \in 1..ev_cond.at.condc : Succeeds(k))
            /\ ev_ret => /\ ev_i = ev_cond.at.condc
                         /\ ev_np = Len(ev_cond.at.numbers)
            /\ ~ev_ret => /\ ev_i < ev_cond.at.condc
                          /\ ~Succeeds(ev_i + 1)
                          /\ \A k \in 1..ev_i : Succeeds(k)
                          /\ ev_np <= OperandsBefore(ev_cond.at, ev_i + 2))
    /\ [][(/\ ev_pc = "ready"
           /\ ev_pc' = "returned"
           /\ ~ev_cond'.null
           /\ \A k \in 1..ev_cond'.at.condc :
                 k <= ev_i' + 1 =>
                    /\ ~IsPathSelector(ev_cond'.at.condp[k].left)
                    /\ ~IsPathSelector(ev_cond'.at.condp[k].right))
          => obj' = obj]_vars

C5_Witness ==
    /\ Called
    /\ ev_cond.at.condc = 2
    /\ ~ev_ret
    /\ ev_i = 0
    /\ ev_cond.at.condp[1].right = "TOMOYO_NUMBER_UNION"
    /\ ev_cond.at.condp[2].right = "TOMOYO_PATH1_PERM"
    /\ req.has_obj
    /\ req.path1.positive
    /\ ~obj.validate_done

\* C6: a clause with a side that names a path attribute fails, and the
\* condition is false, when the request has no object information or the
\* slot of that path role is not valid after resolution; the equals flag and
\* the other side make no difference.
C6_MissingPathFails ==
    Called =>
      \A k \in 1..ev_cond.at.condc :
        (\/ Unavailable(req, ev_cond.at.condp[k].left)
         \/ Unavailable(req, ev_cond.at.condp[k].right))
        => /\ ~ev_ret
           /\ k \in Visited(ev_cond.at) => ev_i = k - 1

C6_Witness ==
    /\ Called
    /\ ev_cond.at.condc = 1
    /\ ev_cond.at.condp[1] = Element("TOMOYO_TASK_GID", "TOMOYO_PATH1_GID", FALSE)
    /\ req.cred.gid = 15
    /\ req.has_obj
    /\ req.path1.present
    /\ ~req.path1.positive
    /\ obj.validate_done
    /\ ~obj.stat_valid[TOMOYO_PATH1]
    /\ ~ev_ret

\* The left side of clause k has a value.
LeftResolved(c, k) ==
    IsPathSelector(c.condp[k].left) =>
        req.has_obj /\ SlotResolves(req, StatIndex(c.condp[k].left))

\* The operand the right side of clause k owns.
RightLiteral(c, k) ==
    IF c.condp[k].left = "TOMOYO_NUMBER_UNION"
    THEN c.numbers[OperandsBefore(c, k) + 2]
    ELSE c.numbers[OperandsBefore(c, k) + 1]

LeftMin(c, k) ==
    IF c.condp[k].left = "TOMOYO_NUMBER_UNION"
    THEN c.numbers[OperandsBefore(c, k) + 1].values[1]
    ELSE SideValue(c.condp[k].left, req, obj).value

LeftMax(c, k) ==
    IF c.condp[k].left = "TOMOYO_NUMBER_UNION"
    THEN c.numbers[OperandsBefore(c, k) + 1].values[2]
    ELSE SideValue(c.condp[k].left, req, obj).value

\* The test the claim states for [lmin, lmax] against the literal.
LiteralTest(lmin, lmax, lit) ==
    IF lit.group # 0
    THEN tomoyo_number_matches_group(lmin, lmax, lit.group)
    ELSE lmin <= lit.values[2] /\ lmax >= lit.values[1]

\* The condition "task.uid=10-20" or "task.uid!=10-20".
UidIn10To20(eq) ==
    Ref(MkCondition(<<Element("TOMOYO_TASK_UID", "TOMOYO_NUMBER_UNION", eq)>>,
                    <<Interval(10, 20)>>))

\* C7: a clause whose right side is an inline literal succeeds iff the group
\* test of the left interval, or else its overlap with the literal's
\* interval, equals the equals flag; against [10,20] a left value of 15
\* succeeds and 25 fails under equals, and the reverse under not-equals.
C7_LiteralComparison ==
    /\ Called =>
         \A k \in Visited(ev_cond.at) :
            (/\ ev_cond.at.condp[k].right = "TOMOYO_NUMBER_UNION"
             /\ LeftResolved(ev_cond.at, k))
            => Passed(k) =
                 (LiteralTest(LeftMin(ev_cond.at, k), LeftMax(ev_cond.at, k),
                              RightLiteral(ev_cond.at, k))
                  = ev_cond.at.condp[k].equals)
    /\ (ev_pc = "returned" /\ ev_cond = UidIn10To20(TRUE))
         => /\ req.cred.uid = 15 => ev_ret
            /\ req.cred.uid = 25 => ~ev_ret
    /\ (ev_pc = "returned" /\ ev_cond = UidIn10To20(FALSE))
         => /\ req.cred.uid = 15 => ~ev_ret
            /\ req.cred.uid = 25 => ev_ret

C7_Witness ==
    /\ ev_pc = "returned"
    /\ ev_cond = UidIn10To20(FALSE)
    /\ req.cred.uid = 25
    /\ ev_ret

\* The inode behind a path role of the request.
RoleInode(r, s) ==
    CASE s = TOMOYO_PATH1 -> r.path1.inode
      [] s = TOMOYO_PATH1_PARENT -> r.path1.parent_inode
      [] s = TOMOYO_PATH2 -> r.path2.inode
      [] s = TOMOYO_PATH2_PARENT -> r.path2.parent_inode

\* The permission bits of the path role a selector names.
PermField(r, sel) == RoleInode(r, StatIndex(sel)).i_mode % (S_IALLUGO + 1)

\* The test the claim states for a bit constant against permission bits.
BitsShared(bit, perm, field) ==
    BitAnd(SideValue(bit, req, obj).value, PermField(req, perm)) # 0

\* C8: a bit constant paired with the permission bits of a path whose slot
\* is valid succeeds iff ((constant AND field) # 0) equals the equals flag,
\* on whichever side the constant stands; two bit constants always fail.
C8_BitOperation ==
    Called =>
      /\ \A k \in Visited(ev_cond.at) :
           /\ (/\ ev_cond.at.condp[k].left \in BitopSelectors
               /\ ev_cond.at.condp[k].right \in PermSelectors
               /\ ~Unavailable(req, ev_cond.at.condp[k].right))
              => Passed(k) =
                   (BitsShared(ev_cond.at.condp[k].left,
                               ev_cond.at.condp[k].right,
                               PermField(req, ev_cond.at.condp[k].right))
                    = ev_cond.at.condp[k].equals)
           /\ (/\ ev_cond.at.condp[k].right \in BitopSelectors
               /\ ev_cond.at.condp[k].left \in PermSelectors
               /\ ~Unavailable(req, ev_cond.at.condp[k].left))
              => Passed(k) =
                   (BitsShared(ev_cond.at.condp[k].right,
                               ev_cond.at.condp[k].left,
                               PermField(req, ev_cond.at.condp[k].left))
                    = ev_cond.at.condp[k].equals)
      /\ \A k \in 1..ev_cond.at.condc :
           (/\ ev_cond.at.condp[k].left \in BitopSelectors
            /\ ev_cond.at.condp[k].right \in BitopSelectors)
           => /\ ~ev_ret
              /\ k \in Visited(ev_cond.at) => ev_i = k - 1

C8_Witness ==
    /\ Called
    /\ ev_cond.at.condc = 1
    /\ ev_cond.at.condp[1] =
          Element("TOMOYO_MODE_OWNER_EXECUTE", "TOMOYO_PATH1_PERM", TRUE)
    /\ req.has_obj
    /\ req.path1 = Positive(InodeExec, InodeDir)
    /\ ev_ret

\* C11: a clause that pairs a permission-bit constant with anything but the
\* permission bits of a path (a credential, a type constant, another path
\* attribute, an inline literal, on either side) fails, whatever the equals
\* flag is.
C11_BitConstantNeedsPerm ==
    Called =>
      \A k \in Visited(ev_cond.at) :
        (\/ /\ ev_cond.at.condp[k].left \in BitopSelectors
            /\ ev_cond.at.condp[k].right \notin PermSelectors
         \/ /\ ev_cond.at.condp[k].right \in BitopSelectors
            /\ ev_cond.at.condp[k].left \notin PermSelectors)
        => ~Passed(k)

\* C10: with cond = NULL the call returns true for every request, resolves
\* no attribute and leaves the request and its object information as they
\* were.
C10_NullConditionTrue ==
    /\ []((ev_pc = "returned" /\ ev_cond.null) => ev_ret)
    /\ [][(ev_pc = "ready" /\ ev_pc' = "returned" /\ ev_cond'.null)
          => (ev_ret' /\ obj' = obj /\ req' = req)]_vars

C10_Witness ==
    /\ ev_pc = "returned"
    /\ ev_cond.null
    /\ ev_ret
    /\ req.has_obj
    /\ req.path1.positive
    /\ ~obj.validate_done

\* C17: while the request stays the same, tomoyo_get_attributes runs at
\* most once: only a call that finds validate_done unset and goes through a
\* clause with a path attribute fetches, it sets validate_done, and from then
\* on no call changes a slot or a validity flag. Only a new request starts
\* from an empty snapshot again.
C17_FetchedOnce ==
    /\ [](/\ obj.fetches <= 1
          /\ obj.validate_done <=> obj.fetches = 1
          /\ ~obj.validate_done => obj = FreshObj)
    /\ [][\/ obj' = obj
          \/ /\ obj' = FreshObj
             /\ ev_pc' = "ready"
          \/ /\ ev_pc = "ready"
             /\ ev_pc' = "returned"
             /\ req' = req
             /\ ~obj.validate_done
             /\ obj'.validate_done
             /\ obj'.fetches = 1
             /\ ~ev_cond'.null
             /\ \E k \in 1..ev_cond'.at.condc :
                   /\ k <= ev_i' + 1
                   /\ \/ IsPathSelector(ev_cond'.at.condp[k].left)
                      \/ IsPathSelector(ev_cond'.at.condp[k].right)]_vars

C17_Witness ==
    /\ Called
    /\ ev_cond.at.condc = 2
    /\ ev_i = 1
    /\ ev_cond.at.condp[1].left = "TOMOYO_PATH1_UID"
    /\ ev_cond.at.condp[2].right = "TOMOYO_PATH1_GID"
    /\ obj.validate_done
    /\ obj.fetches = 1
    /\ obj.stat_valid[TOMOYO_PATH1]

\* The reference traffic the claim allows for a base path: the parent is
\* taken and dropped once if the path is there, nothing happens otherwise.
ParentRefs(base, role) ==
    IF base.present THEN <<<<"dget", role>>, <<"dput", role>>>> ELSE <<>>

\* C18: one resolution, whatever paths are there: the parent of path1 is
\* looked up from path1 and that of path2 from path2, and skipped when the
\* path is absent; each parent reference is dropped once, before the next
\* role, and none is dropped for path1 or path2 themselves; a slot is valid
\* only if its dentry was there and had an inode, and then holds that
\* inode's attributes.
C18_OwnParentOneRelease ==
    obj.validate_done =>
      /\ obj.refs = ParentRefs(req.path1, TOMOYO_PATH1_PARENT)
                    \o ParentRefs(req.path2, TOMOYO_PATH2_PARENT)
      /\ \A st \in 0..(TOMOYO_MAX_PATH_STAT - 1) :
            /\ obj.stat_valid[st] = SlotResolves(req, st)
            /\ obj.stat_valid[st]
                 => obj.stat[st] = MiniStat(RoleInode(req, st))
            /\ ~obj.stat_valid[st] => obj.stat[st] = FreshObj.stat[st]

C18_Witness ==
    /\ obj.validate_done
    /\ ~req.path1.present
    /\ req.path2 = Positive(InodePlain, InodeOtherDir)
    /\ ~obj.stat_valid[TOMOYO_PATH1]
    /\ ~obj.stat_valid[TOMOYO_PATH1_PARENT]
    /\ obj.stat_valid[TOMOYO_PATH2]
    /\ obj.stat[TOMOYO_PATH2_PARENT] = MiniStat(InodeOtherDir)
    /\ obj.refs = <<<<"dget", TOMOYO_PATH2_PARENT>>,
                    <<"dput", TOMOYO_PATH2_PARENT>>>>

(***************************************************************************)
(* tomoyo_get_condition: the text.                                         *)
(***************************************************************************)
\* The byte '\0'.
NUL == "NUL"

\* The keywords of tomoyo_condition_keyword[] the model knows, in the order
\* of the scan, each with its value in enum tomoyo_conditions_index.
tomoyo_condition_keyword ==
    <<[word |-> <<"t", "a", "s", "k", ".", "u", "i", "d">>,
       index |-> "TOMOYO_TASK_UID"],
      [word |-> <<"t", "a", "s", "k", ".", "g", "i", "d">>,
       index |-> "TOMOYO_TASK_GID"],
      [word |-> <<"p", "a", "t", "h", "1", ".", "u", "i", "d">>,
       index |-> "TOMOYO_PATH1_UID"],
      [word |-> <<"p", "a", "t", "h", "1", ".", "p", "e", "r", "m">>,
       index |-> "TOMOYO_PATH1_PERM"],
      [word |-> <<"o", "w", "n", "e", "r", "_", "e", "x", "e", "c", "u", "t", "e">>,
       index |-> "TOMOYO_MODE_OWNER_EXECUTE"]>>

RECURSIVE CStr(_, _)
\* The C string that starts at index w of buffer b.
CStr(b, w) == IF b[w] = NUL THEN <<>> ELSE <<b[w]>> \o CStr(b, w + 1)

RECURSIVE StrChr(_, _, _)
\* strchr(b + from, ch): the index of the first ch before the NUL, 0 if none.
StrChr(b, from, ch) ==
    IF b[from] = NUL
    THEN 0
    ELSE IF b[from] = ch THEN from ELSE StrChr(b, from + 1, ch)

\* tomoyo_condition_type(word)
tomoyo_condition_type(word) ==
    LET hits == {i \in 1..Len(tomoyo_condition_keyword) :
                    tomoyo_condition_keyword[i].word = word}
    IN  IF hits = {}
        THEN "TOMOYO_MAX_CONDITION_KEYWORD"
        ELSE tomoyo_condition_keyword[CHOOSE i \in hits :
                                          \A j \in hits : i <= j].index

Digits == {"0", "1", "2", "3", "4", "5", "6", "7", "8", "9"}
DigitValue(c) ==
    CASE c = "0" -> 0 [] c = "1" -> 1 [] c = "2" -> 2 [] c = "3" -> 3
      [] c = "4" -> 4 [] c = "5" -> 5 [] c = "6" -> 6 [] c = "7" -> 7
      [] c = "8" -> 8 [] c = "9" -> 9

RECURSIVE Decimal(_, _)
\* The value of a run of decimal digits, most significant first.
Decimal(w, acc) ==
    IF w = <<>> THEN acc ELSE Decimal(Tail(w), 10 * acc + DigitValue(w[1]))

IsNumber(w) == w # <<>> /\ \A k \in 1..Len(w) : w[k] \in Digits

\* The literal parser, tomoyo_parse_number_union, on one word: "N", "N-M"
\* with N <= M, or "@name" (the group the name denotes: "g" is group 1).
tomoyo_parse_number_union(word) ==
    LET fail == [ok |-> FALSE, num |-> Interval(0, 0)]
        dash == {k \in 1..Len(word) : word[k] = "-"}
    IN  IF word = <<>>
        THEN fail
        ELSE IF word[1] = "@"
        THEN IF Tail(word) = <<"g">>
             THEN [ok |-> TRUE, num |-> GroupRef(1)]
             ELSE fail
        ELSE IF IsNumber(word)
        THEN [ok |-> TRUE, num |-> Interval(Decimal(word, 0), Decimal(word, 0))]
        ELSE IF Cardinality(dash) = 1
        THEN LET d == CHOOSE k \in dash : TRUE
                 lo == SubSeq(word, 1, d - 1)
                 hi == SubSeq(word, d + 1, Len(word))
             IN  IF IsNumber(lo) /\ IsNumber(hi)
                    /\ Decimal(lo, 0) <= Decimal(hi, 0)
                 THEN [ok |-> TRUE,
                       num |-> Interval(Decimal(lo, 0), Decimal(hi, 0))]
                 ELSE fail
        ELSE fail

(***************************************************************************)
(* tomoyo_get_condition: the two passes.                                   *)
(***************************************************************************)
\* Longest expression drawn at random, in tokens.
MaxTokens == 5

\* pos = "": the static empty string, outside the buffer.
EmptyString == 0

\* *p for a pointer into the buffer or to the empty string.
CharAt(b, k) == IF k = EmptyString THEN NUL ELSE b[k]

\* u16 arithmetic of e.condc and e.numbers_count.
Inc16(x) == (x + 1) % 65536
Dec16(x) == (x + 65535) % 65536

NoEntry ==
    [alloc |-> FALSE, size |-> 0, condc |-> 0, numbers_count |-> 0,
     condp |-> <<>>, numbers |-> <<>>, owner |-> <<>>, oob |-> FALSE]

\* entry = kzalloc(e.size); *entry = e; the arrays are zero-filled.
NewEntry(e) ==
    [alloc |-> TRUE, size |-> e.size, condc |-> e.condc,
     numbers_count |-> e.numbers_count,
     condp |-> [k \in 1..e.condc |-> Element("", "", FALSE)],
     numbers |-> [k \in 1..e.numbers_count |-> Interval(0, 0)],
     owner |-> [k \in 1..e.numbers_count |-> <<0, "none">>],
     oob |-> FALSE]

\* *numbers_p = num, numbers_p pointing at operand k + 1 of the block; owner
\* keeps, for each operand, the clause and the side it was parsed for.
StoreNumber(ent, k, num, clause, side) ==
    IF k + 1 <= Len(ent.numbers)
    THEN [ent EXCEPT !.numbers[k + 1] = num,
                     !.owner[k + 1] = <<clause, side>>]
    ELSE [ent EXCEPT !.oob = TRUE]

\* *condp = elem, condp pointing at element k + 1 of the block.
StoreElement(ent, k, elem) ==
    IF k + 1 <= Len(ent.condp)
    THEN [ent EXCEPT !.condp[k + 1] = elem]
    ELSE [ent EXCEPT !.oob = TRUE]

RECURSIVE RestoreFromEquals(_, _, _)
\* Mutation of RestoreFrom: the byte after the NUL is not looked at, every
\* operator comes back as "=".
RestoreFromEquals(b, k, flag) ==
    IF k >= Len(b)
    THEN b
    ELSE IF b[k] # NUL
    THEN RestoreFromEquals(b, k + 1, flag)
    ELSE RestoreFromEquals([b EXCEPT ![k] = IF flag THEN " " ELSE "="],
                           k + 1, ~flag)

RECURSIVE RestoreFrom(_, _, _)
\* The walk from index k to end_of_string that puts back ' ', '!' and '='.
RestoreFrom(b, k, flag) ==
    IF k >= Len(b)
    THEN b
    ELSE IF b[k] # NUL
    THEN RestoreFrom(b, k + 1, flag)
    ELSE LET c == IF flag THEN " " ELSE IF b[k + 1] = "=" THEN "!" ELSE "="
         IN  RestoreFrom([b EXCEPT ![k] = c], k + 1, ~flag)

\* Mutation of CountSide: a side that is not a keyword is not counted.
CountSideNever(type, n) == n

\* Sizing pass: if (x == TOMOYO_MAX_CONDITION_KEYWORD) e.numbers_count++;
CountSide(type, n) ==
    IF type = "TOMOYO_MAX_CONDITION_KEYWORD" THEN Inc16(n) ELSE n

\* Mutation of UncountSide: the build pass leaves the operand counter alone.
UncountSideNever(type, n) == n

\* Build pass: ... e.numbers_count--;
UncountSide(type, n) ==
    IF type = "TOMOYO_MAX_CONDITION_KEYWORD" THEN Dec16(n) ELSE n

\* Mutation of FreedAfterOut: the block is not released.
FreedAfterOutLeak(ent, n) == n

\* out: if (entry) { tomoyo_del_condition(...); kfree(entry); }
FreedAfterOut(ent, n) == IF ent.alloc THEN n + 1 ELSE n

\* "goto out": the block, if any, is released and NULL is returned; parsed
\* is the number of calls of the literal parser made by then.
ParseFails(b, pos, parsed) ==
    /\ p_pc' = "failed"
    /\ p_buf' = b
    /\ p_pos' = pos
    /\ p_freed' = FreedAfterOut(p_entry, p_freed)
    /\ p_parsed' = parsed
    /\ UNCHANGED <<p_text, p_e, p_entry, p_condp, p_numbers_p>>

\* Mutation of SizingParses: the sizing pass validates each literal.
SizingParsesLiteral(type, n) ==
    IF type = "TOMOYO_MAX_CONDITION_KEYWORD" THEN n + 1 ELSE n

\* Sizing pass: if (!numbers_p) e.numbers_count++; and nothing else: the
\* side is counted, tomoyo_parse_number_union is not called.
SizingParses(type, n) == n

\* One iteration of while (1) in the sizing pass (condp and numbers_p NULL).
SizeClause(b, pos, left_word, right_word) ==
    LET left == tomoyo_condition_type(CStr(b, left_word))
        right == tomoyo_condition_type(CStr(b, right_word))
    IN  /\ p_e' = [p_e EXCEPT
                     !.numbers_count = CountSide(right, CountSide(left, @)),
                     !.condc = Inc16(@)]
        /\ p_buf' = b
        /\ p_pos' = pos
        /\ p_parsed' = SizingParses(right, SizingParses(left, p_parsed))
        /\ UNCHANGED <<p_pc, p_text, p_entry, p_condp, p_numbers_p, p_freed>>

\* Mutation of LeftIsGroup: a group reference is let through on the left.
LeftIsGroupAllowed(b, left_word) == FALSE

\* *left_word == '@'
LeftIsGroup(b, left_word) == b[left_word] = "@"

\* One iteration of while (1) in the build pass.
BuildClause(b, pos, left_word, right_word, is_not) ==
    LET ltype == tomoyo_condition_type(CStr(b, left_word))
        lword == CStr(b, left_word)
        lunion == ltype = "TOMOYO_MAX_CONDITION_KEYWORD"
        lnum == tomoyo_parse_number_union(lword)
        \* *left_word == '@' || !tomoyo_parse_number_union(param, numbers_p++)
        parsed1 == IF lunion /\ ~LeftIsGroup(b, left_word)
                   THEN p_parsed + 1
                   ELSE p_parsed
    IN  IF lunion /\ (LeftIsGroup(b, left_word) \/ ~lnum.ok)
        THEN ParseFails(b, pos, parsed1)
        ELSE
        LET left == IF lunion THEN "TOMOYO_NUMBER_UNION" ELSE ltype
            ent1 == IF lunion
                    THEN StoreNumber(p_entry, p_numbers_p, lnum.num,
                                     p_condp + 1, "left")
                    ELSE p_entry
            np1 == IF lunion THEN p_numbers_p + 1 ELSE p_numbers_p
            rtype == tomoyo_condition_type(CStr(b, right_word))
            runion == rtype = "TOMOYO_MAX_CONDITION_KEYWORD"
            rnum == tomoyo_parse_number_union(CStr(b, right_word))
            parsed2 == IF runion THEN parsed1 + 1 ELSE parsed1
        IN  IF runion /\ ~rnum.ok
            THEN ParseFails(b, pos, parsed2)
            ELSE
            LET right == IF runion THEN "TOMOYO_NUMBER_UNION" ELSE rtype
                ent2 == IF runion
                        THEN StoreNumber(ent1, np1, rnum.num,
                                         p_condp + 1, "right")
                        ELSE ent1
                np2 == IF runion THEN np1 + 1 ELSE np1
            IN  /\ p_e' = [p_e EXCEPT
                             !.numbers_count =
                                 UncountSide(rtype, UncountSide(ltype, @)),
                             !.condc = Dec16(@)]
                /\ p_entry' = StoreElement(ent2, p_condp,
                                           Element(left, right, ~is_not))
                /\ p_condp' = p_condp + 1
                /\ p_numbers_p' = np2
                /\ p_parsed' = parsed2
                /\ p_buf' = b
                /\ p_pos' = pos
                /\ UNCHANGED <<p_pc, p_text, p_freed>>

\* The body of while (1) for one "$left$operator$right" block.
ParseClause ==
    /\ p_pc = "loop"
    /\ CharAt(p_buf, p_pos) # NUL
    /\ UNCHANGED <<commitVars, evalVars, longVars>>
    /\ LET left_word == p_pos
           cp == StrChr(p_buf, p_pos, " ")
           b1 == IF cp # 0 THEN [p_buf EXCEPT ![cp] = NUL] ELSE p_buf
           pos1 == IF cp # 0 THEN cp + 1 ELSE EmptyString
           eq == StrChr(b1, left_word, "=")
       IN  IF eq = 0 \/ eq = left_word
           THEN ParseFails(b1, pos1, p_parsed)
           ELSE
           LET is_not == b1[eq - 1] = "!" IN
           IF ~is_not /\ b1[eq + 1] = "="
           THEN ParseFails(b1, pos1, p_parsed)
           ELSE
           LET b2 == IF is_not
                     THEN [b1 EXCEPT ![eq - 1] = NUL]
                     ELSE [b1 EXCEPT ![eq] = NUL]
           IN  IF p_entry.alloc
               THEN BuildClause(b2, pos1, left_word, eq + 1, is_not)
               ELSE SizeClause(b2, pos1, left_word, eq + 1)

\* if (!*left_word) break; and what follows the loop.
EndOfPass ==
    /\ p_pc = "loop"
    /\ CharAt(p_buf, p_pos) = NUL
    /\ UNCHANGED <<commitVars, evalVars, longVars>>
    /\ IF p_entry.alloc
       THEN \* BUG_ON(e.numbers_count | e.condc);
            \* return tomoyo_commit_condition(entry);
            /\ p_pc' = IF p_e.numbers_count # 0 \/ p_e.condc # 0
                       THEN "BUG"
                       ELSE "commit"
            /\ UNCHANGED <<p_text, p_buf, p_pos, p_e, p_entry, p_condp,
                           p_numbers_p, p_freed, p_parsed>>
       ELSE LET e == [p_e EXCEPT
                        !.size = CondSize(p_e.condc, p_e.numbers_count)]
            IN  \E kzalloc_ok \in BOOLEAN :
                  IF kzalloc_ok
                  THEN /\ p_e' = e
                       /\ p_entry' = NewEntry(e)
                       /\ p_condp' = 0
                       /\ p_numbers_p' = 0
                       /\ p_buf' = RestoreFrom(p_buf, 1, FALSE)
                       /\ p_pos' = 1
                       /\ UNCHANGED <<p_pc, p_text, p_freed, p_parsed>>
                  ELSE /\ p_e' = e
                       /\ p_pc' = "failed"
                       /\ UNCHANGED <<p_text, p_buf, p_pos, p_entry, p_condp,
                                      p_numbers_p, p_freed, p_parsed>>

NextParse ==
    \/ ParseClause
    \/ EndOfPass

(***************************************************************************)
(* Expressions handed to tomoyo_get_condition.                             *)
(***************************************************************************)
Tokens ==
    {<<"t", "a", "s", "k", ".", "u", "i", "d">>,
     <<"0">>, <<"@", "g">>, <<"=">>, <<"!">>, <<" ">>}

RECURSIVE TokenStrings(_)
\* The concatenations of at most n tokens.
TokenStrings(n) ==
    IF n = 0
    THEN {<<>>}
    ELSE LET shorter == TokenStrings(n - 1) IN
         shorter \cup {s \o t : s \in shorter, t \in Tokens}

\* "task.uid=0 path1.uid!=task.uid"
ExprUidAndOwner ==
    <<"t", "a", "s", "k", ".", "u", "i", "d", "=", "0", " ", "p",
      "a", "t", "h", "1", ".", "u", "i", "d", "!", "=", "t", "a",
      "s", "k", ".", "u", "i", "d">>

\* "task.uid=10-20 owner_execute=path1.perm"
ExprRangeAndPerm ==
    <<"t", "a", "s", "k", ".", "u", "i", "d", "=", "1", "0", "-",
      "2", "0", " ", "o", "w", "n", "e", "r", "_", "e", "x", "e",
      "c", "u", "t", "e", "=", "p", "a", "t", "h", "1", ".", "p",
      "e", "r", "m">>

\* "1=0-5 task.uid!=7 3=@g"
ExprLiterals ==
    <<"1", "=", "0", "-", "5", " ", "t", "a", "s", "k", ".", "u",
      "i", "d", "!", "=", "7", " ", "3", "=", "@", "g">>

ParseInputs ==
    TokenStrings(MaxTokens)
    \cup {ExprUidAndOwner, ExprRangeAndPerm, ExprLiterals}

ParseAtRest ==
    /\ p_pc = "idle"
    /\ p_text = <<>>
    /\ p_buf = <<NUL>>
    /\ p_pos = 1
    /\ p_e = [condc |-> 0, numbers_count |-> 0, size |-> 0]
    /\ p_entry = NoEntry
    /\ p_condp = 0
    /\ p_numbers_p = 0
    /\ p_freed = 0
    /\ p_parsed = 0

\* tomoyo_get_condition(param) has been entered: pos = start_of_string.
InitParse ==
    /\ p_text \in ParseInputs
    /\ p_buf = p_text \o <<NUL>>
    /\ p_pc = "loop"
    /\ p_pos = 1
    /\ p_e = [condc |-> 0, numbers_count |-> 0, size |-> 0]
    /\ p_entry = NoEntry
    /\ p_condp = 0
    /\ p_numbers_p = 0
    /\ p_freed = 0
    /\ p_parsed = 0

(***************************************************************************)
(* Properties of tomoyo_get_condition.                                     *)
(***************************************************************************)
\* C12: for every string the sizing pass accepts, the restoration walk gives
\* the buffer its original bytes back ('=', '!' and ' ' where the NULs were
\* written), and the build pass starts over on that text.
C12_RestoredByteForByte ==
    [][(~p_entry.alloc /\ p_entry'.alloc)
       => /\ p_buf' = p_text \o <<NUL>>
          /\ p_pos' = 1]_vars

C12_Witness ==
    /\ p_text = ExprUidAndOwner
    /\ p_pc = "loop"
    /\ p_entry.alloc
    /\ p_condp = 0
    /\ p_pos = 1
    /\ p_buf = ExprUidAndOwner \o <<NUL>>

\* C13: the two passes count the same items: while the build pass runs, the
\* counters of "e" are what the sizing pass counted less what the build pass
\* has written, both are zero when it reaches the end of the expression, and
\* the BUG_ON before the commit does not fire.
C13_PassesCountAlike ==
    /\ p_pc # "BUG"
    /\ (p_entry.alloc /\ p_pc \in {"loop", "commit"})
         => /\ p_e.condc = p_entry.condc - p_condp
            /\ p_e.numbers_count = p_entry.numbers_count - p_numbers_p
    /\ p_pc = "commit"
         => /\ p_e.condc = 0
            /\ p_e.numbers_count = 0

C13_Witness ==
    /\ p_text = ExprLiterals
    /\ p_pc = "commit"
    /\ p_entry.condc = 3
    /\ p_entry.numbers_count = 5
    /\ p_e.condc = 0
    /\ p_e.numbers_count = 0

\* "task.uid=" followed by a word that is neither a keyword nor a literal.
BadLiteralTexts ==
    {<<"t", "a", "s", "k", ".", "u", "i", "d", "=">> \o w :
        w \in {<<>>, <<"!">>, <<"0", "!">>, <<"0", "@", "g">>,
               <<"@", "g", "0">>}}

\* The statement as the specification words it: the sizing pass hands the
\* literal to the parser once, and an invalid literal is rejected there,
\* before the size is computed and the block allocated.
C14_AsStated ==
    (p_text \in BadLiteralTexts /\ p_pc = "failed")
    => /\ ~p_entry.alloc
       /\ p_e.size = 0
       /\ p_parsed = 1

\* C14: the sizing pass only counts the sides that are not keywords and
\* never calls the literal parser; the build pass calls it once per such
\* side and stores the result. An expression with an invalid literal passes
\* the sizing pass and is rejected by the build pass, the block allocated
\* and released.
C14_LiteralsParsedInBuildPass ==
    /\ ~p_entry.alloc => p_parsed = 0
    /\ (p_entry.alloc /\ p_pc \in {"loop", "commit"}) => p_parsed = p_numbers_p
    /\ p_pc = "commit" => p_parsed = p_entry.numbers_count
    /\ p_text \in BadLiteralTexts
         => /\ p_pc # "commit"
            /\ p_pc = "failed"
                 => /\ p_e.size = CondSize(1, 1)
                    /\ p_entry.alloc => (p_parsed = 1 /\ p_freed = 1)

C14_Witness ==
    /\ p_text = <<"t", "a", "s", "k", ".", "u", "i", "d", "=", "!">>
    /\ p_pc = "failed"
    /\ p_entry.alloc
    /\ p_entry.numbers_count = 1
    /\ p_parsed = 1
    /\ p_freed = 1

\* C15: when compilation fails, in either pass, NULL is returned, the block
\* of the build pass, if there is one, has been released exactly once (and
\* no block is released otherwise), and nothing has been committed.
C15_FailureReleasesOnce ==
    /\ p_pc = "failed"
         => /\ p_entry.alloc => p_freed = 1
            /\ ~p_entry.alloc => p_freed = 0
            /\ tomoyo_condition_list = <<>>
            /\ heap = <<>>
            /\ \A q \in Procs : pc[q] = "idle"
    /\ p_pc # "failed" => p_freed = 0

C15_Witness ==
    /\ p_text = <<"@", "g", "=", "0">>
    /\ p_pc = "failed"
    /\ p_entry.alloc
    /\ p_entry.condc = 1
    /\ p_condp = 0
    /\ p_freed = 1

\* The clauses of an expression as the grammar cuts it: a clause starts at
\* the first byte and after every space, and runs up to the next space. A
\* space at the very end starts no clause.
ClauseStarts(t) == {st \in 1..Len(t) : st = 1 \/ t[st - 1] = " "}

ClauseEnd(t, st) ==
    CHOOSE e \in st..(Len(t) + 1) :
        /\ e = Len(t) + 1 \/ t[e] = " "
        /\ \A k \in st..(e - 1) : t[k] # " "

ClauseAt(t, st) == SubSeq(t, st, ClauseEnd(t, st) - 1)

\* The index of the first "=" of a clause, 0 if it has none.
FirstEq(w) ==
    IF \E q \in 1..Len(w) : w[q] = "="
    THEN CHOOSE q \in 1..Len(w) :
            w[q] = "=" /\ \A k \in 1..(q - 1) : w[k] # "="
    ELSE 0

\* The left side of a clause whose first "=" is at q > 1.
LeftWordOf(w, q) ==
    IF w[q - 1] = "!" THEN SubSeq(w, 1, q - 2) ELSE SubSeq(w, 1, q - 1)

\* The clauses the claim lists.
BadClause(w) ==
    \/ w = <<>>
    \/ FirstEq(w) = 0
    \/ FirstEq(w) = 1
    \/ /\ FirstEq(w) > 1
       /\ w[FirstEq(w) - 1] # "!"
       /\ FirstEq(w) < Len(w)
       /\ w[FirstEq(w) + 1] = "="
    \/ /\ FirstEq(w) > 1
       /\ w[1] = "@"
       /\ tomoyo_condition_type(LeftWordOf(w, FirstEq(w)))
             = "TOMOYO_MAX_CONDITION_KEYWORD"

Malformed(t) == \E st \in ClauseStarts(t) : BadClause(ClauseAt(t, st))

\* C16: no condition comes out of an expression that has a clause without
\* "=", a clause that starts with "=", a bare "==", an empty clause (leading
\* or doubled space) or a clause whose left side starts with "@": the
\* compilation ends at "out".
C16_MalformedRejected ==
    Malformed(p_text) => p_pc \in {"loop", "failed"}

C16_Witness ==
    /\ p_text = <<"0", "=", " ", " ", "0">>
    /\ Malformed(p_text)
    /\ p_pc = "failed"
    /\ p_e.condc = 1
    /\ ~p_entry.alloc

\* The statement as the specification words it: the condition compiled from
\* "task.uid=0 path1.uid!=task.uid" has two clauses and no operand.
C9_AsStated ==
    (p_text = ExprUidAndOwner /\ p_pc = "commit")
    => /\ p_entry.condc = 2
       /\ p_entry.numbers_count = 0

\* C9: parsing "task.uid=0 path1.uid!=task.uid" yields a condition with
\* condc = 2 and numbers_count = 1: the "0" of the first clause is not a
\* keyword, so it is counted, and stored, as the one operand.
C9_TwoClausesOneOperand ==
    p_text = ExprUidAndOwner =>
      /\ p_pc # "BUG"
      /\ p_entry.alloc =>
            /\ p_entry.condc = 2
            /\ p_entry.numbers_count = 1
            /\ p_entry.size = CondSize(2, 1)
            /\ ~p_entry.oob
      /\ p_pc = "commit" =>
            /\ p_entry.alloc
            /\ p_entry.condp =
                  <<Element("TOMOYO_TASK_UID", "TOMOYO_NUMBER_UNION", TRUE),
                    Element("TOMOYO_PATH1_UID", "TOMOYO_TASK_UID", FALSE)>>
            /\ p_entry.numbers = <<Interval(0, 0)>>

C9_Witness ==
    /\ p_text = ExprUidAndOwner
    /\ p_pc = "commit"
    /\ p_entry.alloc
    /\ p_entry.numbers_count = 1
    /\ p_entry.condc = 2

(***************************************************************************)
(* The evaluator run on what the parser built.                             *)
(***************************************************************************)
\* The object behind entry once the build pass is over: the header copied by
\* "*entry = e" and the two arrays that follow it.
EntryCondition(ent) ==
    [size |-> ent.size, condc |-> ent.condc,
     numbers_count |-> ent.numbers_count,
     condp |-> ent.condp, numbers |-> ent.numbers]

\* A request is checked against the condition tomoyo_get_condition has just
\* handed to tomoyo_commit_condition: tomoyo_condition(r, cond), from entry
\* to return, r->obj as the caller zeroed it.
EvaluateCompiled ==
    /\ p_pc = "commit"
    /\ ev_pc = "ready"
    /\ \E r \in Requests :
         /\ req' = r
         /\ Return(Ref(EntryCondition(p_entry)),
                   tomoyo_condition(r, FreshObj, Ref(EntryCondition(p_entry))))
    /\ ev_pc' = "returned"
    /\ UNCHANGED <<commitVars, parseVars, longVars>>

NextCompile ==
    \/ ParseClause
    \/ EndOfPass
    \/ EvaluateCompiled

\* The evaluator has returned from a condition the parser built.
Evaluated == p_pc = "commit" /\ ev_pc = "returned"

\* Read a comes before read b in clause order, left before right.
ReadBefore(a, b) ==
    \/ a[1] < b[1]
    \/ a[1] = b[1] /\ a[2] = "left" /\ b[2] = "right"

\* C19 on the expressions of ParseInputs, none of which makes a counter
\* wrap: every operand the evaluator fetches for a literal side of a clause
\* is the one the build pass stored for that side of that clause; the fetches
\* go up the operand array in clause order, left before right; every literal
\* side of a clause the evaluator got past has been fetched; and no fetch
\* goes past numbers_count operands.
C19_ReadsWhatWasStored ==
    Evaluated =>
        /\ ev_np <= p_entry.numbers_count
        /\ \A rd \in ev_reads :
             /\ rd[3] \in 1..p_entry.numbers_count
             /\ rd[3] <= ev_np
             /\ p_entry.owner[rd[3]] = <<rd[1], rd[2]>>
        /\ \A a, b \in ev_reads : ReadBefore(a, b) => a[3] < b[3]
        /\ \A k \in 1..ev_i :
             /\ p_entry.condp[k].left = "TOMOYO_NUMBER_UNION"
                   => \E rd \in ev_reads : rd[1] = k /\ rd[2] = "left"
             /\ p_entry.condp[k].right = "TOMOYO_NUMBER_UNION"
                   => \E rd \in ev_reads : rd[1] = k /\ rd[2] = "right"
        /\ ev_ret => ev_np = p_entry.numbers_count

\* "1=0-5 task.uid!=7 3=@g" has been compiled and evaluated up to its third
\* clause: five operands were fetched, two of them by one clause.
C19_Witness ==
    /\ Evaluated
    /\ p_text = ExprLiterals
    /\ ev_i >= 2
    /\ Cardinality(ev_reads) = 5
    /\ <<1, "left", 1>> \in ev_reads
    /\ <<3, "right", 5>> \in ev_reads

(***************************************************************************)
(* tomoyo_get_condition and tomoyo_condition on long expressions: the      *)
(* loops are followed a run of equal clauses at a time.                    *)
(***************************************************************************)
\* Longest expression, in runs.
MaxRuns == 2

WordZero == <<"0">>
WordTaskUid == <<"t", "a", "s", "k", ".", "u", "i", "d">>

\* "0=0", "0=task.uid", "task.uid=0" and "task.uid=task.uid".
LongClauses == {[left |-> l, right |-> r] : l, r \in {WordZero, WordTaskUid}}

\* How many times in a row a clause is written.
RunLengths == {1, 32767, 32768, 65535, 65536}

Runs == {[clause |-> c, count |-> n] : c \in LongClauses, n \in RunLengths}

RECURSIVE RunSeqs(_)
\* The expressions of at most n runs.
RunSeqs(n) ==
    IF n = 0
    THEN {<<>>}
    ELSE LET shorter == RunSeqs(n - 1) IN
         shorter \cup {Append(rs, r) : rs \in shorter, r \in Runs}

\* The sides of a clause that are inline literals: what one iteration of the
\* sizing pass adds to e.numbers_count.
LiteralSides(c) ==
    CountSide(tomoyo_condition_type(c.right),
              CountSide(tomoyo_condition_type(c.left), 0))

\* x++ and x--, k times over, on a u16.
Add16(x, k) == (x + k) % 65536
Sub16(x, k) == (x + 65536 - (k % 65536)) % 65536

\* The byte after the last of k elements written from entry + 1 on.
ElementsEnd(k) == SizeofCondition + k * SizeofElement

\* The byte after the last of k operands written from condp + e.condc on.
OperandsEnd(ent, k) ==
    SizeofCondition + ent.condc * SizeofElement + k * SizeofNumberUnion

\* The sizing pass over one run: count iterations of while (1).
LongSizeRun ==
    /\ l_pc = "sizing"
    /\ l_run <= Len(l_expr)
    /\ l_e' = [l_e EXCEPT
                 !.condc = Add16(@, l_expr[l_run].count),
                 !.numbers_count =
                     Add16(@, l_expr[l_run].count
                              * LiteralSides(l_expr[l_run].clause))]
    /\ l_run' = l_run + 1
    /\ UNCHANGED <<l_expr, l_pc, l_entry, l_condp, l_numbers_p, l_outside,
                   l_fetched>>
    /\ UNCHANGED <<commitVars, evalVars, parseVars>>

\* The end of the sizing pass: e.size, kzalloc, *entry = e, goto rerun.
LongEndSizing ==
    /\ l_pc = "sizing"
    /\ l_run > Len(l_expr)
    /\ l_e' = [l_e EXCEPT !.size = CondSize(l_e.condc, l_e.numbers_count)]
    /\ \E kzalloc_ok \in BOOLEAN :
         IF kzalloc_ok
         THEN /\ l_entry' = [alloc |-> TRUE, size |-> l_e'.size,
                             condc |-> l_e.condc,
                             numbers_count |-> l_e.numbers_count]
              /\ l_pc' = "build"
              /\ l_run' = 1
         ELSE /\ l_pc' = "failed"
              /\ UNCHANGED <<l_entry, l_run>>
    /\ UNCHANGED <<l_expr, l_condp, l_numbers_p, l_outside, l_fetched>>
    /\ UNCHANGED <<commitVars, evalVars, parseVars>>

\* The writes of the build pass over one run ended past the block.
WritesOutside(ent, condp, numbers_p, literals) ==
    \/ ElementsEnd(condp) > ent.size
    \/ literals > 0 /\ OperandsEnd(ent, numbers_p) > ent.size

\* The build pass over one run: count iterations of while (1), each writing
\* one element and the operands of its literal sides.  After a write outside
\* the block the kernel may go on or stop.
LongBuildRun ==
    /\ l_pc = "build"
    /\ l_run <= Len(l_expr)
    /\ l_e' = [l_e EXCEPT
                 !.condc = Sub16(@, l_expr[l_run].count),
                 !.numbers_count =
                     Sub16(@, l_expr[l_run].count
                              * LiteralSides(l_expr[l_run].clause))]
    /\ l_condp' = l_condp + l_expr[l_run].count
    /\ l_numbers_p' = l_numbers_p + l_expr[l_run].count
                                    * LiteralSides(l_expr[l_run].clause)
    /\ l_outside' =
           (l_outside \/ WritesOutside(l_entry, l_condp', l_numbers_p',
                                       LiteralSides(l_expr[l_run].clause)))
    /\ \E goes_on \in BOOLEAN :
           l_pc' = IF l_outside' /\ ~goes_on THEN "oops" ELSE "build"
    /\ l_run' = l_run + 1
    /\ UNCHANGED <<l_expr, l_entry, l_fetched>>
    /\ UNCHANGED <<commitVars, evalVars, parseVars>>

\* The end of the build pass: BUG_ON(e.numbers_count | e.condc); commit.
LongEndBuild ==
    /\ l_pc = "build"
    /\ l_run > Len(l_expr)
    /\ l_pc' = IF l_e.numbers_count # 0 \/ l_e.condc # 0
               THEN "BUG"
               ELSE "commit"
    /\ UNCHANGED <<l_expr, l_run, l_e, l_entry, l_condp, l_numbers_p,
                   l_outside, l_fetched>>
    /\ UNCHANGED <<commitVars, evalVars, parseVars>>

RECURSIVE FetchedBy(_, _)
\* The operands the first k clauses of an expression make tomoyo_condition
\* fetch: one "ptr = numbers_p++" for each literal side.
FetchedBy(runs, k) ==
    IF runs = <<>> \/ k = 0
    THEN 0
    ELSE LET n == IF k < runs[1].count THEN k ELSE runs[1].count
         IN  n * LiteralSides(runs[1].clause) + FetchedBy(Tail(runs), k - n)

\* The iterations for (i = 0; i < condc; i++) goes into before it returns:
\* the first one if there is any, and as many more as clauses hold.
IterationsEntered(condc) == IF condc = 0 THEN {0} ELSE {1, condc}

\* tomoyo_condition(r, cond) on the committed entry, from entry to return.
LongEvaluate ==
    /\ l_pc = "commit"
    /\ \E k \in IterationsEntered(l_entry.condc) :
           l_fetched' = FetchedBy(l_expr, k)
    /\ l_pc' = "evaluated"
    /\ UNCHANGED <<l_expr, l_run, l_e, l_entry, l_condp, l_numbers_p,
                   l_outside>>
    /\ UNCHANGED <<commitVars, evalVars, parseVars>>

NextLong ==
    \/ LongSizeRun
    \/ LongEndSizing
    \/ LongBuildRun
    \/ LongEndBuild
    \/ LongEvaluate

LongAtRest ==
    /\ l_expr = <<>>
    /\ l_pc = "idle"
    /\ l_run = 1
    /\ l_e = [condc |-> 0, numbers_count |-> 0, size |-> 0]
    /\ l_entry = [alloc |-> FALSE, size |-> 0, condc |-> 0,
                  numbers_count |-> 0]
    /\ l_condp = 0
    /\ l_numbers_p = 0
    /\ l_outside = FALSE
    /\ l_fetched = 0

\* tomoyo_get_condition(param) has been entered on a long expression.
InitLong ==
    /\ l_expr \in RunSeqs(MaxRuns)
    /\ l_pc = "sizing"
    /\ l_run = 1
    /\ l_e = [condc |-> 0, numbers_count |-> 0, size |-> 0]
    /\ l_entry = [alloc |-> FALSE, size |-> 0, condc |-> 0,
                  numbers_count |-> 0]
    /\ l_condp = 0
    /\ l_numbers_p = 0
    /\ l_outside = FALSE
    /\ l_fetched = 0

\* C20: for expressions of any length, every write of the build pass falls
\* inside the allocated block, whose size is the one the header's counts
\* give, and once the build pass is over the clause count and the operand
\* count of the header are the numbers of elements and operands written.
C20_AsStated ==
    l_entry.alloc =>
        /\ l_entry.size = CondSize(l_entry.condc, l_entry.numbers_count)
        /\ ~l_outside
        /\ l_pc \in {"commit", "evaluated"} =>
              /\ l_entry.condc = l_condp
              /\ l_entry.numbers_count = l_numbers_p

\* C19, for expressions of any length: the operands the evaluator fetches are
\* operands the build pass stored, and none lies past the operand array, whose
\* length is the operand count of the header.
C19_AsStated ==
    l_pc = "evaluated" =>
        /\ l_fetched <= l_numbers_p
        /\ l_fetched <= l_entry.numbers_count

(***************************************************************************)
(* Specifications.                                                         *)
(***************************************************************************)
\* No access check is in progress.
EvalAtRest ==
    /\ req = [cred |-> Cred(0, 0), has_obj |-> FALSE,
              path1 |-> NoDentry, path2 |-> NoDentry]
    /\ obj = FreshObj
    /\ EvalIdle

InitSpec == InitCommit /\ EvalAtRest /\ ParseAtRest /\ LongAtRest

Spec == InitSpec /\ [][NextCommit]_vars

InitSpecEval == InitCommit /\ InitEval /\ ParseAtRest /\ LongAtRest

SpecEval == InitSpecEval /\ [][NextEval]_vars

InitSpecParse == InitCommit /\ EvalAtRest /\ InitParse /\ LongAtRest

SpecParse == InitSpecParse /\ [][NextParse]_vars

InitSpecCompile == InitCommit /\ EvalAtRest /\ InitParse /\ LongAtRest

SpecCompile == InitSpecCompile /\ [][NextCompile]_vars

InitSpecLong == InitCommit /\ EvalAtRest /\ ParseAtRest /\ InitLong

SpecLong == InitSpecLong /\ [][NextLong]_vars

====
